---- MODULE Spec2Model ----
(***************************************************************************)
(* Model of the sandwich detection pipeline of sanscry:                    *)
(*   - extract_potential_swaps   (processor.py)  the stack-aware walk      *)
(*   - parse_block_for_potential_sandwiches (processor.py)  the matcher    *)
(*   - main                      (processor.py)  resolver and driver       *)
(* Strings of the program whose characters matter (transaction             *)
(* signatures) are sequences of one-character strings.                     *)
(***************************************************************************)
EXTENDS Integers, Sequences, FiniteSets, TLC

VARIABLES
    tx_resp,              \* extractor run: the transaction handed to extract_potential_swaps
    extracted,            \* extractor run: its result
    xpc,                  \* extractor run: "idle", "start", "called", "returned" or "raised"
    block,                \* block scan: the transactions of the fetched block
    tx_list,              \* block scan: the list X handed to the matcher
    i,                    \* block scan: the entry index of the next iteration (0-based)
    attacker_tx_set,      \* block scan: the used set
    potential_sandwiches, \* block scan: the sandwiches emitted so far
    pc,                   \* block scan: "idle", "fetch", "parse", "scan", "returned" or "raised"
    pools_map,            \* driver: the pool registry, loaded once
    db,                   \* driver: the rows of the three tables of the store
    blocks,               \* driver: the block numbers still to process
    block_number,         \* driver: the block being processed
    sandwich_index,       \* driver: the number of potential sandwiches handled in this block
    resolved,             \* driver: the direction the resolver fixed for the last sandwich
    sandwich,             \* driver: the last Sandwich built
    outcomes,             \* driver: the branch each potential sandwich of this block took
    dpc,                  \* driver: "idle", "start", "loop", "block", "done", "raised" or "interrupted"
    interrupted,          \* driver: what an interrupted run of main left undone, for the restart
    tip_tx,               \* tip run: the transaction handed to AttackerTx.from_potential_swap
    attacker_tx,          \* tip run: the AttackerTx it returns
    tpc                   \* tip run: "idle", "start", "called" or "returned"

xvars == <<tx_resp, extracted, xpc>>
svars == <<block, tx_list, i, attacker_tx_set, potential_sandwiches, pc>>
dvars == <<pools_map, db, blocks, block_number, sandwich_index, resolved, sandwich,
           outcomes, dpc, interrupted>>
tvars == <<tip_tx, attacker_tx, tpc>>
vars == <<xvars, svars, dvars, tvars>>

----------------------------------------------------------------------------
(* The values of the variables of a process that is not running *)

ExtractIdle ==
    /\ tx_resp = <<>>
    /\ extracted = <<>>
    /\ xpc = "idle"

TipIdle ==
    /\ tip_tx = <<>>
    /\ attacker_tx = <<>>
    /\ tpc = "idle"

NoSandwich == <<>>

DriverIdle ==
    /\ pools_map = <<>>
    /\ db = [sandwiches |-> {}, attacker_txs |-> {}, target_txs |-> {}]
    /\ blocks = <<>>
    /\ block_number = 0
    /\ sandwich_index = 0
    /\ resolved = NoSandwich
    /\ sandwich = NoSandwich
    /\ outcomes = <<>>
    /\ dpc = "idle"
    /\ interrupted = <<>>

ScanIdle ==
    /\ block = <<>>
    /\ tx_list = <<>>
    /\ i = 0
    /\ attacker_tx_set = {}
    /\ potential_sandwiches = <<>>
    /\ pc = "idle"


----------------------------------------------------------------------------
(* Bounds of the extractor's inputs *)
MaxInner == 5
MaxHeight == 2

(* tx_types.py: stackHeight is Optional[int]; a top-level instruction of the
   RPC payload carries none.  -1 stands for None. *)
NoStackHeight == -1

----------------------------------------------------------------------------
(* Instructions *)

transfer_types == {"transfer", "transferChecked"}

(* A parsed or regular instruction.  `ix` is the identity of the instruction
   object inside its transaction. *)
Instruction(ix, parsed, type, program, programId, stackHeight, source, destination, amount, accounts) ==
    [ix |-> ix, parsed |-> parsed, type |-> type, program |-> program,
     programId |-> programId, stackHeight |-> stackHeight,
     source |-> source, destination |-> destination, amount |-> amount,
     accounts |-> accounts]

is_transfer(ix) == ix.parsed /\ ix.type \in transfer_types

PotentialSwap(exchange_instruction, transfer_instructions, top_level_ix) ==
    [exchange_instruction |-> exchange_instruction,
     transfer_instructions |-> transfer_instructions,
     top_level_ix |-> top_level_ix]

----------------------------------------------------------------------------
(* extract_potential_swaps.  Cursors are 0-based as in the source; the
   element under cursor p of list L is L[p + 1]. *)

At(L, p) == L[p + 1]

(* the list of one inner-instruction group: the top-level instruction with
   stackHeight 0, then the group's instructions *)
ProgramIxs(tx, inner_instruction) ==
    <<[tx.instructions[inner_instruction.index + 1] EXCEPT !.stackHeight = 0]>>
        \o inner_instruction.instructions

(* "ensures call stack is maintained": pop until the instruction is deeper
   than the top of the stack.  Reading the top of an empty stack raises
   IndexError; the empty result stands for that. *)
(* a test that asks for an instruction two levels below the top of the stack *)
CallerIsTwoAbove(ix, stack) == ix.stackHeight > stack[Len(stack)].stackHeight + 1

CallerIsOnTop(ix, stack) == ix.stackHeight > stack[Len(stack)].stackHeight

(* a walk that leaves the stack as it is *)
PopNothing(stack, ix) == stack

RECURSIVE PopToCaller(_, _)
PopToCaller(stack, ix) ==
    IF stack = <<>> THEN <<>>
    ELSE IF CallerIsOnTop(ix, stack) THEN stack
    ELSE PopToCaller(SubSeq(stack, 1, Len(stack) - 1), ix)

(* a left cursor that stays where it is *)
SkipNoTransfers(L, left_ptr) == left_ptr

RECURSIVE SkipLeadingTransfers(_, _)
SkipLeadingTransfers(L, left_ptr) ==
    IF left_ptr < Len(L) /\ is_transfer(At(L, left_ptr))
    THEN SkipLeadingTransfers(L, left_ptr + 1)
    ELSE left_ptr

(* the cursor after the run of consecutive transfers that starts at right_ptr *)
RECURSIVE CollectTransfers(_, _)
CollectTransfers(L, right_ptr) ==
    IF right_ptr < Len(L) /\ is_transfer(At(L, right_ptr))
    THEN CollectTransfers(L, right_ptr + 1)
    ELSE right_ptr

IsSwapLengthUpTo5(n) == n > 1 /\ n <= 5

IsSwapLength(n) == n > 1 /\ n < 5

RECURSIVE WalkNonTransfers(_, _, _)
WalkNonTransfers(L, right_ptr, stack) ==
    IF right_ptr < Len(L) /\ ~is_transfer(At(L, right_ptr))
    THEN LET popped == PopToCaller(stack, At(L, right_ptr)) IN
         IF popped = <<>>
         THEN [right_ptr |-> right_ptr, stack |-> <<>>, raised |-> TRUE]
         ELSE WalkNonTransfers(L, right_ptr + 1, Append(popped, At(L, right_ptr)))
    ELSE [right_ptr |-> right_ptr, stack |-> stack, raised |-> FALSE]

RECURSIVE InnerLoop(_, _, _, _)
InnerLoop(L, right_ptr, stack, swaps) ==
    IF right_ptr < Len(L)
    THEN LET popped == PopToCaller(stack, At(L, right_ptr)) IN
         IF popped = <<>>
         THEN [right_ptr |-> right_ptr, swaps |-> swaps, raised |-> TRUE]
         ELSE LET non_transfer_ix == popped[Len(popped)]
                  after == CollectTransfers(L, right_ptr)
                  transfers == SubSeq(L, right_ptr + 1, after)
                  swaps2 == IF IsSwapLength(Len(transfers))
                            THEN Append(swaps, PotentialSwap(non_transfer_ix, transfers, L[1]))
                            ELSE swaps
                  walked == WalkNonTransfers(L, after, popped)
              IN IF walked.raised
                 THEN [right_ptr |-> walked.right_ptr, swaps |-> swaps2, raised |-> TRUE]
                 ELSE InnerLoop(L, walked.right_ptr, walked.stack, swaps2)
    ELSE [right_ptr |-> right_ptr, swaps |-> swaps, raised |-> FALSE]

RECURSIVE OuterLoop(_, _, _, _)
OuterLoop(L, left_ptr, right_ptr, swaps) ==
    IF left_ptr < Len(L) /\ right_ptr < Len(L)
    THEN LET left == SkipLeadingTransfers(L, left_ptr)
             non_transfer_ix == L[IF left < Len(L) THEN left + 1 ELSE Len(L)]
             inner == InnerLoop(L, left + 1, <<non_transfer_ix>>, swaps)
         IN IF inner.raised
            THEN [left_ptr |-> left, right_ptr |-> inner.right_ptr,
                  swaps |-> inner.swaps, raised |-> TRUE]
            ELSE OuterLoop(L, inner.right_ptr, inner.right_ptr, inner.swaps)
    ELSE [left_ptr |-> left_ptr, right_ptr |-> right_ptr, swaps |-> swaps, raised |-> FALSE]

(* the pass over one group's list *)
ExtractGroup(L, swaps) == OuterLoop(L, 0, 0, swaps)

(* the loop over the transaction's inner-instruction groups; an exception
   leaves the function without a result *)
RECURSIVE ExtractGroups(_, _, _)
ExtractGroups(tx, g, swaps) ==
    IF g > Len(tx.innerInstructions)
    THEN [swaps |-> swaps, raised |-> FALSE]
    ELSE LET r == ExtractGroup(ProgramIxs(tx, tx.innerInstructions[g]), swaps) IN
         IF r.raised THEN [swaps |-> <<>>, raised |-> TRUE]
         ELSE ExtractGroups(tx, g + 1, r.swaps)

extract_potential_swaps(tx) == ExtractGroups(tx, 1, <<>>)

----------------------------------------------------------------------------
(* Extractor run: one transaction with one inner-instruction group, every
   instruction a transfer or not, at every stack height of the bound. *)

Heights == 1..MaxHeight
IxKinds == {"transfer", "call"}

PlainIx(ix, kind, h) ==
    IF kind = "transfer"
    THEN Instruction(<<0, ix>>, TRUE, "transfer", "spl-token", "Token", h,
                     <<"U", "x">>, <<"D1", "x">>, 1, <<>>)
    ELSE Instruction(<<0, ix>>, FALSE, "", "", "Prog", h, <<>>, <<>>, 0, <<>>)

GroupTx(topKind, inner) ==
    [instructions |-> <<PlainIx(0, topKind, NoStackHeight)>>,
     innerInstructions |-> <<[index |-> 0, instructions |-> inner]>>]

InnerList(n, f) == [p \in 1..n |-> PlainIx(p, f[p][1], f[p][2])]

ExtractInit ==
    /\ tx_resp = <<>>
    /\ extracted = <<>>
    /\ xpc = "start"
    /\ ScanIdle
    /\ DriverIdle
    /\ TipIdle

(* the call, with its argument *)
ExtractCall ==
    /\ xpc = "start"
    /\ \E k \in IxKinds : \E n \in 0..MaxInner : \E f \in [1..n -> IxKinds \X Heights] :
          tx_resp' = GroupTx(k, InnerList(n, f))
    /\ xpc' = "called"
    /\ UNCHANGED <<extracted, svars, dvars, tvars>>

ExtractReturn ==
    /\ xpc = "called"
    /\ ~extract_potential_swaps(tx_resp).raised
    /\ extracted' = extract_potential_swaps(tx_resp).swaps
    /\ xpc' = "returned"
    /\ UNCHANGED <<tx_resp, svars, dvars, tvars>>

ExtractRaise ==
    /\ xpc = "called"
    /\ extract_potential_swaps(tx_resp).raised
    /\ xpc' = "raised"
    /\ UNCHANGED <<tx_resp, extracted, svars, dvars, tvars>>

ExtractNext == ExtractCall \/ ExtractReturn \/ ExtractRaise

SpecExtract == ExtractInit /\ [][ExtractNext]_vars

----------------------------------------------------------------------------
(* Transactions, transfers, and the matcher's predicates *)

ErrNone == "None"

is_transaction_successful_always(tx) == TRUE

is_transaction_successful(tx) == tx.err = ErrNone

get_signature(tx) == tx.signatures[1]

(* the pubkey of the first account key that signs *)
get_signer(tx) ==
    LET k == CHOOSE k \in DOMAIN tx.accountKeys :
                 /\ tx.accountKeys[k].signer
                 /\ \A m \in 1..(k - 1) : ~tx.accountKeys[m].signer
    IN tx.accountKeys[k].pubkey

(* TransferInfo.from_ix: transferChecked, spl-token transfer and system
   transfer are classified (`amount` stands for the amount key of each
   shape); anything else raises *)
from_ix(ix) ==
    IF ix.type = "transferChecked" \/ ix.program = "spl-token" \/ ix.program = "system"
    THEN [raised |-> FALSE, amount |-> ix.amount,
          source |-> ix.source, destination |-> ix.destination]
    ELSE [raised |-> TRUE, amount |-> 0, source |-> <<>>, destination |-> <<>>]

TransferInfos(ixs) == [k \in DOMAIN ixs |-> from_ix(ixs[k])]

(* transfer_instructions[0:2] *)
FirstTwo(swap) ==
    SubSeq(swap.transfer_instructions, 1,
           IF Len(swap.transfer_instructions) < 2 THEN Len(swap.transfer_instructions) ELSE 2)

Classifiable(ixs) == \A k \in DOMAIN ixs : ~from_ix(ixs[k]).raised

SourceVaults(swap) == {from_ix(FirstTwo(swap)[k]).source : k \in DOMAIN FirstTwo(swap)}

DestinationVaults(swap) == {from_ix(FirstTwo(swap)[k]).destination : k \in DOMAIN FirstTwo(swap)}

Dex(swap) == swap.exchange_instruction.programId

PotentialSwapWithTxContext(tx, potential_swap, number_of_tx_swaps) ==
    [tx |-> tx, potential_swap |-> potential_swap, number_of_tx_swaps |-> number_of_tx_swaps]

(* entry_index, target_indexes and exit_index record the loop indices i, the
   k's and j at which the sandwich was emitted *)
PotentialSandwich(entry_tx, target_txs, exit_tx, i_, ks, j_) ==
    [entry_tx |-> entry_tx, target_txs |-> target_txs, exit_tx |-> exit_tx,
     entry_index |-> i_, target_indexes |-> ks, exit_index |-> j_]

(* the list X: the swaps of the successful transactions, in block order *)
RECURSIVE BuildTxList(_, _, _)
BuildTxList(B, t, acc) ==
    IF t > Len(B) THEN [tx_list |-> acc, raised |-> FALSE]
    ELSE LET r == extract_potential_swaps(B[t]) IN
         IF r.raised THEN [tx_list |-> <<>>, raised |-> TRUE]
         ELSE IF is_transaction_successful(B[t])
         THEN BuildTxList(B, t + 1,
                  acc \o [k \in 1..Len(r.swaps) |->
                             PotentialSwapWithTxContext(t, r.swaps[k], Len(r.swaps))])
         ELSE BuildTxList(B, t + 1, acc)

SkipEntryAnyCount(entry_signature, used, number_of_tx_swaps) ==
    entry_signature \in used

SkipEntry(entry_signature, used, number_of_tx_swaps) ==
    entry_signature \in used \/ number_of_tx_swaps # 1

FirstExitIndex(entry_index) == entry_index + 2

SameDex(entry_swap, other_swap) == Dex(entry_swap) = Dex(other_swap)

OppositeDirection(entry_swap, exit_swap) ==
    /\ SourceVaults(entry_swap) \cap DestinationVaults(exit_swap) # {}
    /\ DestinationVaults(entry_swap) \cap SourceVaults(exit_swap) # {}

SameDirection(entry_swap, target_swap) ==
    /\ SourceVaults(entry_swap) \cap SourceVaults(target_swap) # {}
    /\ DestinationVaults(entry_swap) \cap DestinationVaults(target_swap) # {}

(* lines 127-134: the swap at k is appended to target_txs *)
IsTargetAnyDex(entry_swap, target_swap) == SameDirection(entry_swap, target_swap)

IsTarget(entry_swap, target_swap) ==
    SameDex(entry_swap, target_swap) /\ SameDirection(entry_swap, target_swap)

ShouldEmitInvalid(valid_sequence, target_txs) == target_txs # <<>>

ShouldEmitWithoutTargets(valid_sequence, target_txs) == valid_sequence

ShouldEmit(valid_sequence, target_txs) == valid_sequence /\ target_txs # <<>>

(* a list that takes the new sandwich at its head *)
EmitSandwichFirst(out, s) == <<s>> \o out

(* line 138: potential_sandwiches.append *)
EmitSandwich(out, s) == Append(out, s)

(* set.update(entry_signature, exit_signature): update takes iterables and
   adds their elements, and the elements of a str are its characters *)
SetUpdate(used, entry_signature, exit_signature) ==
    used \cup {<<entry_signature[c]>> : c \in DOMAIN entry_signature}
         \cup {<<exit_signature[c]>> : c \in DOMAIN exit_signature}

(* for k in range(i + 1, j) *)
RECURSIVE GatherTargets(_, _, _, _, _, _, _)
GatherTargets(B, X, i_, j_, k, target_txs, ks) ==
    IF k >= j_
    THEN [valid_sequence |-> TRUE, target_txs |-> target_txs, ks |-> ks, raised |-> FALSE]
    ELSE LET entry_swap == At(X, i_).potential_swap
             target_tx == At(X, k)
         IN IF get_signer(B[target_tx.tx]) = get_signer(B[At(X, i_).tx])
            THEN [valid_sequence |-> FALSE, target_txs |-> target_txs, ks |-> ks,
                  raised |-> FALSE]
            ELSE IF /\ SameDex(entry_swap, target_tx.potential_swap)
                    /\ ~Classifiable(FirstTwo(target_tx.potential_swap))
            THEN [valid_sequence |-> TRUE, target_txs |-> target_txs, ks |-> ks,
                  raised |-> TRUE]
            ELSE IF IsTarget(entry_swap, target_tx.potential_swap)
            THEN GatherTargets(B, X, i_, j_, k + 1,
                               Append(target_txs, target_tx), Append(ks, k))
            ELSE GatherTargets(B, X, i_, j_, k + 1, target_txs, ks)

(* for j in range(i + 2, len(tx_list)) *)
RECURSIVE ExitLoop(_, _, _, _, _, _)
ExitLoop(B, X, i_, j_, used, out) ==
    IF j_ >= Len(X) THEN [used |-> used, out |-> out, raised |-> FALSE]
    ELSE LET entry_tx == At(X, i_)
             exit_tx == At(X, j_)
             entry_signature == get_signature(B[entry_tx.tx])
             exit_signature == get_signature(B[exit_tx.tx])
         IN IF exit_signature \in used
            THEN ExitLoop(B, X, i_, j_ + 1, used, out)
            ELSE IF get_signer(B[exit_tx.tx]) # get_signer(B[entry_tx.tx])
            THEN ExitLoop(B, X, i_, j_ + 1, used, out)
            ELSE IF ~SameDex(entry_tx.potential_swap, exit_tx.potential_swap)
            THEN ExitLoop(B, X, i_, j_ + 1, used, out)
            ELSE IF \/ ~Classifiable(FirstTwo(entry_tx.potential_swap))
                    \/ ~Classifiable(FirstTwo(exit_tx.potential_swap))
            THEN [used |-> used, out |-> out, raised |-> TRUE]
            ELSE IF ~OppositeDirection(entry_tx.potential_swap, exit_tx.potential_swap)
            THEN ExitLoop(B, X, i_, j_ + 1, used, out)
            ELSE LET g == GatherTargets(B, X, i_, j_, i_ + 1, <<>>, <<>>) IN
                 IF g.raised THEN [used |-> used, out |-> out, raised |-> TRUE]
                 ELSE IF ShouldEmit(g.valid_sequence, g.target_txs)
                 THEN ExitLoop(B, X, i_, j_ + 1,
                               SetUpdate(used, entry_signature, exit_signature),
                               EmitSandwich(out,
                                   PotentialSandwich(entry_tx, g.target_txs, exit_tx,
                                                     i_, g.ks, j_)))
                 ELSE ExitLoop(B, X, i_, j_ + 1, used, out)

----------------------------------------------------------------------------
(* Blocks of the block scan.  A transaction is described by its signer, its
   meta.err and the swaps (legs) it performs; each leg is one top-level call
   of a bot program that invokes the DEX, which moves the two tokens x and y
   of its pool between the signer's token accounts and the pool's vaults. *)

(* a block holds up to MaxTx transactions of any description below, or up to
   MaxPlainTx plain ones *)
MaxTx == 3
MaxPlainTx == 5

(* tx_types.py, class Exchanges: two of the registered programs, their ids
   abbreviated.  "D2" is a program that EXCHANGES_INFO does not list. *)
RAYDIUM_LPV4_ADDRESS == "675k"
ORCA_WHIRLPOOL_ADDRESS == "whir"

Signers == {"A", "V"}
Dirs == {"fwd", "rev"}

SigChars == <<"1", "2", "3", "4", "5", "6", "7", "8", "9">>

(* the signature of the p-th transaction of the block that character b
   names: a two-character string *)
Signature(b, p) == <<b, SigChars[p]>>

(* a swap through exchange program dex on the vaults of pool *)
Leg(dex, pool, dir, extra, amount_in, amount_out) ==
    [dex |-> dex, pool |-> pool, dir |-> dir, extra |-> extra,
     amount_in |-> amount_in, amount_out |-> amount_out]

TokenIn(leg) == IF leg.dir = "fwd" THEN "x" ELSE "y"
TokenOut(leg) == IF leg.dir = "fwd" THEN "y" ELSE "x"

TransferProgram(leg) == IF leg.extra = "unknown" THEN "stake" ELSE "spl-token"

LegTransfers(u, g, leg) ==
    LET pay == Instruction(<<g, 2>>, TRUE, "transfer", TransferProgram(leg), "Token", 3,
                           <<u, TokenIn(leg)>>, <<leg.pool, TokenIn(leg)>>, leg.amount_in, <<>>)
        receive == Instruction(<<g, 3>>, TRUE, "transfer", TransferProgram(leg), "Token", 3,
                               <<leg.pool, TokenOut(leg)>>, <<u, TokenOut(leg)>>,
                               leg.amount_out, <<>>)
        refund == Instruction(<<g, 4>>, TRUE, "transferChecked", "spl-token", "Token", 3,
                              <<leg.pool, TokenIn(leg)>>, <<u, TokenIn(leg)>>, 1, <<>>)
        fee == Instruction(<<g, 5>>, TRUE, "transfer", "spl-token", "Token", 3,
                           <<u, TokenIn(leg)>>, <<"Fee", TokenIn(leg)>>, 4, <<>>)
    IN IF leg.extra = "refund" THEN <<pay, receive, refund>>
       ELSE IF leg.extra = "fee first" THEN <<fee, pay, receive>>
       ELSE IF leg.extra = "fee second" THEN <<pay, fee, receive>>
       ELSE <<pay, receive>>

LegGroup(u, g, leg) ==
    [index |-> g,
     instructions |->
        <<Instruction(<<g, 1>>, FALSE, "", "", leg.dex, 2, <<>>, <<>>, 0,
                      <<<<u, "authority">>, <<leg.pool, "pool">>>>)>>
        \o LegTransfers(u, g, leg)]

Tx(b, p, d) ==
    [signatures |-> <<Signature(b, p)>>,
     accountKeys |-> <<[pubkey |-> d.signer, signer |-> TRUE],
                       [pubkey |-> "Token", signer |-> FALSE]>>,
     err |-> d.err,
     instructions |-> [g \in 1..Len(d.legs) |->
                          Instruction(<<g - 1, 0>>, FALSE, "", "", "Bot", NoStackHeight,
                                      <<>>, <<>>, 0, <<>>)],
     innerInstructions |-> [g \in 1..Len(d.legs) |-> LegGroup(d.signer, g - 1, d.legs[g])]]

Desc(signer, err, legs) == [signer |-> signer, err |-> err, legs |-> legs]

(* a successful transaction with one two-transfer swap through Raydium on pool P1 *)
PlainDescs ==
    {Desc(u, ErrNone, <<Leg(RAYDIUM_LPV4_ADDRESS, "P1", dir, "none", 1, 1)>>) :
        u \in Signers, dir \in Dirs}

(* a failed transaction; one with two swaps; one that reaches the vaults of
   P1 through another exchange program; one whose swap has a third transfer,
   back to the sender; one whose transfers no classifier branch accepts *)
OddDescs ==
    {Desc("A", "InstructionError", <<Leg(RAYDIUM_LPV4_ADDRESS, "P1", "fwd", "none", 1, 1)>>),
     Desc("A", ErrNone, <<Leg(RAYDIUM_LPV4_ADDRESS, "P1", "fwd", "none", 1, 1),
                          Leg(RAYDIUM_LPV4_ADDRESS, "P1", "fwd", "none", 1, 1)>>),
     Desc("A", ErrNone, <<Leg("D2", "P1", "rev", "none", 1, 1)>>),
     Desc("A", ErrNone, <<Leg(RAYDIUM_LPV4_ADDRESS, "P1", "fwd", "refund", 1, 1)>>),
     Desc("V", ErrNone, <<Leg(RAYDIUM_LPV4_ADDRESS, "P1", "fwd", "unknown", 1, 1)>>)}

TxDescs == PlainDescs \cup OddDescs

BlockOf(b, n, d) == [p \in 1..n |-> Tx(b, p, d[p])]

----------------------------------------------------------------------------
(* parse_block_for_potential_sandwiches as a process: the block is fetched
   and X built, then one step per entry index i, then the return *)

ScanInit ==
    /\ block = <<>>
    /\ tx_list = <<>>
    /\ i = 0
    /\ attacker_tx_set = {}
    /\ potential_sandwiches = <<>>
    /\ pc = "fetch"
    /\ ExtractIdle
    /\ DriverIdle
    /\ TipIdle

(* lines 74-75: the block the RPC node returns *)
GetBlock ==
    /\ pc = "fetch"
    /\ \/ \E n \in 0..MaxTx : \E d \in [1..n -> TxDescs] : block' = BlockOf("s", n, d)
       \/ \E n \in 0..MaxPlainTx : \E d \in [1..n -> PlainDescs] : block' = BlockOf("s", n, d)
    /\ pc' = "parse"
    /\ UNCHANGED <<tx_list, i, attacker_tx_set, potential_sandwiches, xvars, tvars, dvars>>

(* lines 77-86 *)
BuildX ==
    /\ pc = "parse"
    /\ LET r == BuildTxList(block, 1, <<>>) IN
         /\ tx_list' = r.tx_list
         /\ pc' = IF r.raised THEN "raised" ELSE "scan"
    /\ UNCHANGED <<block, i, attacker_tx_set, potential_sandwiches, xvars, tvars, dvars>>

(* one iteration of `for i in range(len(tx_list))`, lines 87-148 *)
ScanEntry ==
    /\ pc = "scan"
    /\ i < Len(tx_list)
    /\ LET entry_tx == At(tx_list, i)
           r == ExitLoop(block, tx_list, i, FirstExitIndex(i), attacker_tx_set,
                         potential_sandwiches)
       IN IF SkipEntry(get_signature(block[entry_tx.tx]), attacker_tx_set,
                       entry_tx.number_of_tx_swaps)
          THEN /\ i' = i + 1
               /\ UNCHANGED <<attacker_tx_set, potential_sandwiches, pc>>
          ELSE IF r.raised
          THEN /\ pc' = "raised"
               /\ UNCHANGED <<i, attacker_tx_set, potential_sandwiches>>
          ELSE /\ i' = i + 1
               /\ attacker_tx_set' = r.used
               /\ potential_sandwiches' = r.out
               /\ pc' = pc
    /\ UNCHANGED <<block, tx_list, xvars, tvars, dvars>>

(* line 149 *)
ScanReturn ==
    /\ pc = "scan"
    /\ i = Len(tx_list)
    /\ pc' = "returned"
    /\ UNCHANGED <<block, tx_list, i, attacker_tx_set, potential_sandwiches, xvars, tvars, dvars>>

Next == GetBlock \/ BuildX \/ ScanEntry \/ ScanReturn

Spec == ScanInit /\ [][Next]_vars

----------------------------------------------------------------------------
(* The resolver of main: registries, trade direction, amounts, the store *)

ExchangeInfo(pool_index) == [pool_index |-> pool_index]

(* tx_types.py EXCHANGES_INFO, the entries of the two programs above *)
EXCHANGES_INFO ==
    (ORCA_WHIRLPOOL_ADDRESS :> ExchangeInfo(2)) @@ (RAYDIUM_LPV4_ADDRESS :> ExchangeInfo(1))

PoolInfo(id, token_a, token_b, token_a_vault, token_b_vault) ==
    [id |-> id, token_a |-> token_a, token_b |-> token_b,
     token_a_vault |-> token_a_vault, token_b_vault |-> token_b_vault]

(* the set fetched at lines 154-155 *)
jito_tip_accounts == {<<"Tip", "sol">>}

(* line 185 *)
SellsTokenADestinationOnly(transfer_info, pool_info) ==
    transfer_info.destination = pool_info.token_a_vault

SellsTokenA(transfer_info, pool_info) ==
    \/ transfer_info.destination = pool_info.token_a_vault
    \/ transfer_info.source = pool_info.token_b_vault

(* line 191 *)
SellsTokenBDestinationOnly(transfer_info, pool_info) ==
    transfer_info.destination = pool_info.token_b_vault

SellsTokenB(transfer_info, pool_info) ==
    \/ transfer_info.destination = pool_info.token_b_vault
    \/ transfer_info.source = pool_info.token_a_vault

(* the four locals the direction loop assigns; status is "matched", or
   "unmatchable" for the loop's else branch, or "raised" *)
Direction(status, profit_token, targeted_token, profit_token_vault, targeted_token_vault) ==
    [status |-> status, profit_token |-> profit_token, targeted_token |-> targeted_token,
     profit_token_vault |-> profit_token_vault, targeted_token_vault |-> targeted_token_vault]

(* for transfer_ix in entry_tx.potential_swap.transfer_instructions, lines 183-199 *)
RECURSIVE ResolveDirection(_, _, _)
ResolveDirection(transfer_instructions, n, pool_info) ==
    IF n > Len(transfer_instructions)
    THEN Direction("unmatchable", "", "", <<>>, <<>>)
    ELSE LET transfer_info == from_ix(transfer_instructions[n]) IN
         IF transfer_info.raised
         THEN Direction("raised", "", "", <<>>, <<>>)
         ELSE IF SellsTokenA(transfer_info, pool_info)
         THEN Direction("matched", pool_info.token_a, pool_info.token_b,
                        pool_info.token_a_vault, pool_info.token_b_vault)
         ELSE IF SellsTokenB(transfer_info, pool_info)
         THEN Direction("matched", pool_info.token_b, pool_info.token_a,
                        pool_info.token_b_vault, pool_info.token_a_vault)
         ELSE ResolveDirection(transfer_instructions, n + 1, pool_info)

(* the first lines of both from_potential_swap: every transfer of the swap is
   classified, then the first one decides which of the first two carries the
   profit token *)
SplitTransfers(potential_swap, profit_token_vault, targeted_token_vault) ==
    LET transfer_infos == TransferInfos(potential_swap.transfer_instructions) IN
    IF ~Classifiable(potential_swap.transfer_instructions)
    THEN [raised |-> TRUE, profit_token_amount |-> 0, targeted_token_amount |-> 0]
    ELSE IF \/ profit_token_vault = transfer_infos[1].source
            \/ profit_token_vault = transfer_infos[1].destination
    THEN [raised |-> FALSE, profit_token_amount |-> transfer_infos[1].amount,
          targeted_token_amount |-> transfer_infos[2].amount]
    ELSE IF \/ targeted_token_vault = transfer_infos[1].source
            \/ targeted_token_vault = transfer_infos[1].destination
    THEN [raised |-> FALSE, profit_token_amount |-> transfer_infos[2].amount,
          targeted_token_amount |-> transfer_infos[1].amount]
    ELSE [raised |-> TRUE, profit_token_amount |-> 0, targeted_token_amount |-> 0]

(* the top-level instructions of a transaction, then the instructions of its
   inner groups, in order *)
RECURSIVE InnerIxs(_, _)
InnerIxs(tx, g) ==
    IF g > Len(tx.innerInstructions) THEN <<>>
    ELSE tx.innerInstructions[g].instructions \o InnerIxs(tx, g + 1)

RECURSIVE FirstTip(_, _, _)
FirstTip(ixs, n, tip_accounts) ==
    IF n > Len(ixs) THEN 0
    ELSE IF ixs[n].parsed /\ ixs[n].type = "transfer" /\ ixs[n].destination \in tip_accounts
    THEN ixs[n].amount
    ELSE FirstTip(ixs, n + 1, tip_accounts)

(* a scan that looks through the inner instructions before the top-level ones *)
get_jito_tip_inner_first(tx, tip_accounts) ==
    FirstTip(InnerIxs(tx, 1) \o tx.instructions, 1, tip_accounts)

get_jito_tip(tx, tip_accounts) == FirstTip(tx.instructions \o InnerIxs(tx, 1), 1, tip_accounts)

TargetTx_from_potential_swap(B, tx, profit_token_vault, targeted_token_vault) ==
    LET split == SplitTransfers(tx.potential_swap, profit_token_vault, targeted_token_vault) IN
    [raised |-> split.raised,
     signature |-> get_signature(B[tx.tx]),
     signer |-> get_signer(B[tx.tx]),
     profit_token_amount |-> split.profit_token_amount,
     targeted_token_amount |-> split.targeted_token_amount]

AttackerTx_from_potential_swap(B, tx, profit_token_vault, targeted_token_vault, tip_accounts) ==
    LET split == SplitTransfers(tx.potential_swap, profit_token_vault, targeted_token_vault) IN
    [raised |-> split.raised,
     signature |-> get_signature(B[tx.tx]),
     profit_token_amount |-> split.profit_token_amount,
     targeted_token_amount |-> split.targeted_token_amount,
     jito_tip |-> get_jito_tip(B[tx.tx], tip_accounts),
     priority_fee |-> 0]

(* the Sandwich of lines 201-213; block_time, which no decision reads, is
   left out *)
Sandwich(block_, dex, pool, bot, attacker, profit_token, targeted_token, entry_tx, target_txs, exit_tx) ==
    [block |-> block_, dex |-> dex, pool |-> pool, bot |-> bot, attacker |-> attacker,
     profit_token |-> profit_token, targeted_token |-> targeted_token,
     entry_tx |-> entry_tx, target_txs |-> target_txs, exit_tx |-> exit_tx]

(* line 214 *)
IsProfitableOrEven(s) == s.exit_tx.profit_token_amount - s.entry_tx.profit_token_amount >= 0

IsProfitable(s) == s.exit_tx.profit_token_amount - s.entry_tx.profit_token_amount > 0

(* db.py: the rows store_sandwich adds *)
SandwichRow(s) ==
    [id |-> s.entry_tx.signature, block |-> s.block, dex |-> s.dex, pool |-> s.pool,
     bot |-> s.bot, attacker |-> s.attacker, profit_token |-> s.profit_token,
     targeted_token |-> s.targeted_token]

AttackerRow(a, type, sandwich_id) ==
    [signature |-> a.signature, profit_token_amount |-> a.profit_token_amount,
     targeted_token_amount |-> a.targeted_token_amount, jito_tip |-> a.jito_tip,
     priority_fee |-> a.priority_fee, type |-> type, sandwich_id |-> sandwich_id]

TargetRow(t, sandwich_id) ==
    [signature |-> t.signature, sandwich_id |-> sandwich_id, signer |-> t.signer,
     profit_token_amount |-> t.profit_token_amount,
     targeted_token_amount |-> t.targeted_token_amount]

(* the commit fails on a primary key of sandwiches (id), of attacker_txs
   (signature), of target_txs (signature, sandwich_id), or on the unique
   (sandwich_id, type) of attacker_txs *)
StoreRejected(d, s) ==
    LET id == s.entry_tx.signature IN
    \/ \E r \in d.sandwiches : r.id = id
    \/ \E r \in d.attacker_txs :
          r.signature \in {s.entry_tx.signature, s.exit_tx.signature} \/ r.sandwich_id = id
    \/ s.entry_tx.signature = s.exit_tx.signature
    \/ \E r \in d.target_txs :
          r.sandwich_id = id /\ \E n \in DOMAIN s.target_txs : r.signature = s.target_txs[n].signature
    \/ \E n, m \in DOMAIN s.target_txs :
          n # m /\ s.target_txs[n].signature = s.target_txs[m].signature

(* a store that commits the sandwich row and the attacker rows, and leaves
   the target rows for a second commit that never comes *)
store_sandwich_without_targets(d, s) ==
    LET id == s.entry_tx.signature IN
    [sandwiches |-> d.sandwiches \cup {SandwichRow(s)},
     attacker_txs |-> d.attacker_txs
                        \cup {AttackerRow(s.entry_tx, "entry", id), AttackerRow(s.exit_tx, "exit", id)},
     target_txs |-> d.target_txs]

(* one session, one commit *)
store_sandwich(d, s) ==
    LET id == s.entry_tx.signature IN
    [sandwiches |-> d.sandwiches \cup {SandwichRow(s)},
     attacker_txs |-> d.attacker_txs
                        \cup {AttackerRow(s.entry_tx, "entry", id), AttackerRow(s.exit_tx, "exit", id)},
     target_txs |-> d.target_txs
                        \cup {TargetRow(s.target_txs[n], id) : n \in DOMAIN s.target_txs}]

RECURSIVE MaxBlock(_)
MaxBlock(rows) ==
    IF rows = {} THEN 0
    ELSE LET r == CHOOSE r \in rows : TRUE
             rest == MaxBlock(rows \ {r})
         IN IF r.block > rest THEN r.block ELSE rest

(* select max(Sandwich.block), 0 when the table is empty *)
get_latest_block(d) == MaxBlock(d.sandwiches)

(* line 157 *)
DefaultStartBlock == 336902528

Resolution(outcome, direction, built) ==
    [outcome |-> outcome, direction |-> direction, sandwich |-> built]

(* the body of `for potential_sandwich in potential_sandwiches`, lines
   170-217, for one potential sandwich of block B; the outcome is the branch
   taken: one of the four `continue`s, "negative profit", "stored", or
   "raised" when an exception leaves the loop *)
ResolveOne(B, number, registry, d, potential_sandwich) ==
    LET entry_swap == potential_sandwich.entry_tx.potential_swap
        dex == entry_swap.exchange_instruction.programId
        accounts == entry_swap.exchange_instruction.accounts
    IN
    IF dex \notin DOMAIN EXCHANGES_INFO
    THEN Resolution("unknown dex", NoSandwich, NoSandwich)
    ELSE IF Len(accounts) <= EXCHANGES_INFO[dex].pool_index
    THEN Resolution("invalid pool index", NoSandwich, NoSandwich)
    ELSE IF At(accounts, EXCHANGES_INFO[dex].pool_index) \notin DOMAIN registry
    THEN Resolution("unknown pool", NoSandwich, NoSandwich)
    ELSE
    LET pool_info == registry[At(accounts, EXCHANGES_INFO[dex].pool_index)]
        direction == ResolveDirection(entry_swap.transfer_instructions, 1, pool_info)
    IN
    IF direction.status # "matched"
    THEN Resolution(direction.status, NoSandwich, NoSandwich)
    ELSE
    LET entry_tx == AttackerTx_from_potential_swap(B, potential_sandwich.entry_tx,
                        direction.profit_token_vault, direction.targeted_token_vault,
                        jito_tip_accounts)
        target_txs == [n \in DOMAIN potential_sandwich.target_txs |->
                          TargetTx_from_potential_swap(B, potential_sandwich.target_txs[n],
                              direction.profit_token_vault, direction.targeted_token_vault)]
        exit_tx == AttackerTx_from_potential_swap(B, potential_sandwich.exit_tx,
                        direction.profit_token_vault, direction.targeted_token_vault,
                        jito_tip_accounts)
        built == Sandwich(number, dex, pool_info.id, entry_swap.top_level_ix.programId,
                          get_signer(B[potential_sandwich.entry_tx.tx]),
                          direction.profit_token, direction.targeted_token,
                          entry_tx, target_txs, exit_tx)
    IN
    IF entry_tx.raised \/ exit_tx.raised \/ \E n \in DOMAIN target_txs : target_txs[n].raised
    THEN Resolution("raised", direction, NoSandwich)
    ELSE IF ~IsProfitable(built)
    THEN Resolution("negative profit", direction, built)
    ELSE IF StoreRejected(d, built)
    THEN Resolution("raised", direction, built)
    ELSE Resolution("stored", direction, built)

----------------------------------------------------------------------------
(* The driver's inputs: the store it starts from, the pool registry it
   loads, and the blocks the RPC node returns *)

MaxBlocks == 2

EmptyDb == [sandwiches |-> {}, attacker_txs |-> {}, target_txs |-> {}]

(* the store after an earlier run saved one sandwich of block 5 *)
PriorDb ==
    store_sandwich(EmptyDb,
        Sandwich(5, RAYDIUM_LPV4_ADDRESS, <<"P1", "pool">>, "Bot", "A", "x", "y",
                 [signature |-> <<"p", "1">>, profit_token_amount |-> 2,
                  targeted_token_amount |-> 1, jito_tip |-> 0, priority_fee |-> 0],
                 <<[signature |-> <<"p", "2">>, signer |-> "V", profit_token_amount |-> 1,
                    targeted_token_amount |-> 1]>>,
                 [signature |-> <<"p", "3">>, profit_token_amount |-> 3,
                  targeted_token_amount |-> 1, jito_tip |-> 0, priority_fee |-> 0]))

(* registries for the pool P1, whose vaults the blocks' swaps use: the
   pool's row; rows that name only one of the vaults the swaps touch, as
   token_a_vault or as token_b_vault; a row that names neither; no row *)
Registries ==
    {(<<"P1", "pool">> :> PoolInfo(<<"P1", "pool">>, "x", "y", <<"P1", "x">>, <<"P1", "y">>)),
     (<<"P1", "pool">> :> PoolInfo(<<"P1", "pool">>, "y", "z", <<"P1", "y">>, <<"P1", "z">>)),
     (<<"P1", "pool">> :> PoolInfo(<<"P1", "pool">>, "z", "y", <<"P1", "z">>, <<"P1", "y">>)),
     (<<"P1", "pool">> :> PoolInfo(<<"P1", "pool">>, "w", "z", <<"P1", "w">>, <<"P1", "z">>)),
     <<>>}

Opposite(dir) == IF dir = "fwd" THEN "rev" ELSE "fwd"

(* an attack: the attacker's entry, a victim's swap in the same direction,
   the attacker's exit in the opposite direction, all through one program *)
Attack(dex, dir, victim, exit_out) ==
    <<Desc("A", ErrNone, <<Leg(dex, "P1", dir, "none", 2, 1)>>),
      Desc("V", ErrNone, <<Leg(dex, "P1", dir, victim, 1, 1)>>),
      Desc("A", ErrNone, <<Leg(dex, "P1", Opposite(dir), "none", 1, exit_out)>>)>>

(* attacks through Raydium whose exit returns as much as the entry paid, or
   more; one through an unlisted program; one through Orca, whose pool index
   the exchange instruction's two accounts do not reach; one whose victim
   moves its tokens with a transfer no classifier branch accepts *)
Attacks ==
    {Attack(RAYDIUM_LPV4_ADDRESS, dir, "none", out) : dir \in Dirs, out \in {2, 3}}
    \cup {Attack("D2", "fwd", "none", 3),
          Attack(ORCA_WHIRLPOOL_ADDRESS, "fwd", "none", 3),
          Attack(RAYDIUM_LPV4_ADDRESS, "fwd", "unknown", 3)}

(* the attacker's exit doubles as the entry of a second attack *)
ChainedAttacks ==
    <<Desc("A", ErrNone, <<Leg(RAYDIUM_LPV4_ADDRESS, "P1", "fwd", "none", 2, 1)>>),
      Desc("V", ErrNone, <<Leg(RAYDIUM_LPV4_ADDRESS, "P1", "fwd", "none", 1, 1)>>),
      Desc("A", ErrNone, <<Leg(RAYDIUM_LPV4_ADDRESS, "P1", "rev", "none", 1, 3)>>),
      Desc("V", ErrNone, <<Leg(RAYDIUM_LPV4_ADDRESS, "P1", "rev", "none", 1, 1)>>),
      Desc("A", ErrNone, <<Leg(RAYDIUM_LPV4_ADDRESS, "P1", "fwd", "none", 4, 2)>>)>>

(* an attack whose exit pays the exchange's fee account with a transfer of
   its own, before or after the transfer into the vault *)
FeeAttack(exit_extra) ==
    <<Desc("A", ErrNone, <<Leg(RAYDIUM_LPV4_ADDRESS, "P1", "fwd", "none", 2, 1)>>),
      Desc("V", ErrNone, <<Leg(RAYDIUM_LPV4_ADDRESS, "P1", "fwd", "none", 1, 1)>>),
      Desc("A", ErrNone, <<Leg(RAYDIUM_LPV4_ADDRESS, "P1", "rev", exit_extra, 1, 3)>>)>>

FeeAttacks == {FeeAttack("fee first"), FeeAttack("fee second")}

(* what a block holds: nothing, one attack, two attacks one after the other,
   the chained attacks, or an attack with a fee transfer *)
DriverBlocks ==
    {<<>>, ChainedAttacks} \cup Attacks \cup {a \o b : a \in Attacks, b \in Attacks}
        \cup FeeAttacks

SlotChars == <<"a", "b", "c", "d">>

(* the character that names a block in the signatures of its transactions *)
SlotName(number) == SlotChars[(number % Len(SlotChars)) + 1]

----------------------------------------------------------------------------
(* main as a process *)

DriverInit ==
    /\ db \in {EmptyDb, PriorDb}
    /\ pools_map = <<>>
    /\ blocks = <<>>
    /\ block_number = 0
    /\ sandwich_index = 0
    /\ resolved = NoSandwich
    /\ sandwich = NoSandwich
    /\ outcomes = <<>>
    /\ dpc = "start"
    /\ interrupted = <<>>
    /\ ScanIdle
    /\ ExtractIdle
    /\ TipIdle

(* lines 153-164: the range of blocks after the latest stored one (the
   source asks for 100 blocks, the model for MaxBlocks), and the registry *)
DriverStart ==
    /\ dpc = "start"
    /\ LET last_db_block == IF get_latest_block(db) = 0 THEN DefaultStartBlock
                            ELSE get_latest_block(db)
       IN blocks' = [n \in 1..MaxBlocks |-> last_db_block + n]
    /\ \E registry \in Registries : pools_map' = registry
    /\ dpc' = "loop"
    /\ UNCHANGED <<db, block_number, sandwich_index, resolved, sandwich, outcomes, xvars, tvars,
                   interrupted, svars>>

(* lines 165-168 and 74-75: the next block number, and the block fetched *)
FetchBlock ==
    /\ dpc = "loop"
    /\ blocks # <<>>
    /\ block_number' = Head(blocks)
    /\ blocks' = Tail(blocks)
    /\ \E d \in DriverBlocks : block' = BlockOf(SlotName(Head(blocks)), Len(d), d)
    /\ tx_list' = <<>>
    /\ i' = 0
    /\ attacker_tx_set' = {}
    /\ potential_sandwiches' = <<>>
    /\ pc' = "parse"
    /\ sandwich_index' = 0
    /\ resolved' = NoSandwich
    /\ sandwich' = NoSandwich
    /\ outcomes' = <<>>
    /\ dpc' = "block"
    /\ UNCHANGED <<pools_map, db, xvars, tvars, interrupted>>

(* an exception of parse_block_for_potential_sandwiches leaves main *)
ParseRaised ==
    /\ dpc = "block"
    /\ pc = "raised"
    /\ dpc' = "raised"
    /\ UNCHANGED <<pools_map, db, blocks, block_number, sandwich_index, resolved, sandwich,
                   outcomes, xvars, tvars, interrupted, svars>>

(* one iteration of `for potential_sandwich in potential_sandwiches` *)
ResolveSandwich ==
    /\ dpc = "block"
    /\ pc = "returned"
    /\ sandwich_index < Len(potential_sandwiches)
    /\ LET r == ResolveOne(block, block_number, pools_map, db,
                           At(potential_sandwiches, sandwich_index))
       IN /\ resolved' = IF r.direction = NoSandwich THEN NoSandwich
                         ELSE [sandwich_index |-> sandwich_index, direction |-> r.direction]
          /\ sandwich' = r.sandwich
          /\ IF r.outcome = "raised"
             THEN /\ dpc' = "raised"
                  /\ UNCHANGED <<db, sandwich_index>>
             ELSE /\ db' = IF r.outcome = "stored" THEN store_sandwich(db, r.sandwich) ELSE db
                  /\ sandwich_index' = sandwich_index + 1
                  /\ dpc' = dpc
          /\ outcomes' = Append(outcomes, r.outcome)
    /\ UNCHANGED <<pools_map, blocks, block_number, xvars, tvars, interrupted, svars>>

(* the block's sandwiches are exhausted; its locals are dead *)
FinishBlock ==
    /\ dpc = "block"
    /\ pc = "returned"
    /\ sandwich_index = Len(potential_sandwiches)
    /\ block' = <<>>
    /\ tx_list' = <<>>
    /\ i' = 0
    /\ attacker_tx_set' = {}
    /\ potential_sandwiches' = <<>>
    /\ pc' = "idle"
    /\ sandwich_index' = 0
    /\ resolved' = NoSandwich
    /\ sandwich' = NoSandwich
    /\ outcomes' = <<>>
    /\ dpc' = "loop"
    /\ UNCHANGED <<pools_map, db, blocks, block_number, xvars, tvars, interrupted>>

(* the range is exhausted *)
DriverDone ==
    /\ dpc = "loop"
    /\ blocks = <<>>
    /\ dpc' = "done"
    /\ UNCHANGED <<pools_map, db, blocks, block_number, sandwich_index, resolved, sandwich,
                   outcomes, xvars, tvars, interrupted, svars>>

DriverNext ==
    \/ DriverStart
    \/ FetchBlock
    \/ BuildX
    \/ ScanEntry
    \/ ScanReturn
    \/ ParseRaised
    \/ ResolveSandwich
    \/ FinishBlock
    \/ DriverDone

SpecDriver == DriverInit /\ [][DriverNext]_vars

----------------------------------------------------------------------------
(* main interrupted at one of its suspension points, and started again on
   the same store *)

StoredOfBlock == {r.id : r \in {q \in db.sandwiches : q.block = block_number}}

(* the sandwiches of the block in progress that main has not handled yet and
   would store *)
Pending ==
    {get_signature(block[At(potential_sandwiches, n).entry_tx.tx]) :
        n \in {m \in sandwich_index..(Len(potential_sandwiches) - 1) :
                  ResolveOne(block, block_number, pools_map, db,
                             At(potential_sandwiches, m)).outcome = "stored"}}

(* the task of main is cancelled while it waits in store_sandwich (line
   215) for a sandwich of the first block of its range, after it stored
   another sandwich of that block; the memory of the process is gone, the
   store stays *)
Interrupt ==
    /\ interrupted = <<>>
    /\ dpc = "block"
    /\ pc = "returned"
    /\ Len(blocks) = MaxBlocks - 1
    /\ sandwich_index < Len(potential_sandwiches)
    /\ StoredOfBlock # {}
    /\ interrupted' = [block_number |-> block_number, stored |-> StoredOfBlock,
                       pending |-> Pending]
    /\ pools_map' = <<>>
    /\ blocks' = <<>>
    /\ block_number' = 0
    /\ sandwich_index' = 0
    /\ resolved' = NoSandwich
    /\ sandwich' = NoSandwich
    /\ outcomes' = <<>>
    /\ block' = <<>>
    /\ tx_list' = <<>>
    /\ i' = 0
    /\ attacker_tx_set' = {}
    /\ potential_sandwiches' = <<>>
    /\ pc' = "idle"
    /\ dpc' = "interrupted"
    /\ UNCHANGED <<db, xvars, tvars>>

(* main is run again: lines 152-153 *)
Restart ==
    /\ dpc = "interrupted"
    /\ dpc' = "start"
    /\ UNCHANGED <<pools_map, db, blocks, block_number, sandwich_index, resolved, sandwich,
                   outcomes, interrupted, xvars, tvars, svars>>

RestartNext ==
    \/ DriverNext
    \/ Interrupt
    \/ Restart

SpecRestart == DriverInit /\ [][RestartNext]_vars

----------------------------------------------------------------------------
(* Tip run: AttackerTx.from_potential_swap on the entry transaction of an
   attack, to which instructions of the system program are added: some at
   the top level, some in the inner groups of further program calls that
   follow the bot's call *)

MaxTipIxs == 2

(* a transfer to a tip account, a transfer to another account, a
   transferWithSeed to a tip account, an instruction the node did not parse *)
TipKinds == {"tip", "other", "seed", "unparsed"}

(* the instruction of a kind in slot p of the top level (where = 0) or of the
   inner groups (where = 1); its lamports tell the slot *)
TipIx(where, p, kind) ==
    LET lamports == 10 * (where + 1) + p
        stackHeight == IF where = 0 THEN NoStackHeight ELSE 2
    IN
    IF kind = "unparsed"
    THEN Instruction(<<"s", where, p>>, FALSE, "", "", "Prog", stackHeight, <<>>, <<>>, 0, <<>>)
    ELSE Instruction(<<"s", where, p>>, TRUE,
                     IF kind = "seed" THEN "transferWithSeed" ELSE "transfer",
                     "system", "System", stackHeight, <<"A", "sol">>,
                     IF kind = "other" THEN <<"V", "sol">> ELSE <<"Tip", "sol">>,
                     lamports, <<>>)

TipBase == Tx("b", 1, Desc("A", ErrNone, <<Leg(RAYDIUM_LPV4_ADDRESS, "P1", "fwd", "none", 2, 1)>>))

(* the first added inner instruction makes the group of the first further
   call, the others the group of the second *)
TipGroups(inner) ==
    IF inner = <<>> THEN <<>>
    ELSE IF Len(inner) = 1 THEN <<[index |-> 1, instructions |-> inner]>>
    ELSE <<[index |-> 1, instructions |-> SubSeq(inner, 1, 1)],
           [index |-> 2, instructions |-> SubSeq(inner, 2, Len(inner))]>>

TipTx(top, inner) ==
    LET groups == TipGroups(inner)
        calls == [g \in 1..Len(groups) |->
                     Instruction(<<g, 0>>, FALSE, "", "", "Prog", NoStackHeight,
                                 <<>>, <<>>, 0, <<>>)]
    IN [TipBase EXCEPT !.instructions = @ \o calls \o top,
                       !.innerInstructions = @ \o groups]

TipInit ==
    /\ tip_tx = <<>>
    /\ attacker_tx = <<>>
    /\ tpc = "start"
    /\ ExtractIdle
    /\ ScanIdle
    /\ DriverIdle

(* the transaction of the call *)
TipCall ==
    /\ tpc = "start"
    /\ \E n \in 0..MaxTipIxs : \E f \in [1..n -> TipKinds] :
       \E m \in 0..MaxTipIxs : \E h \in [1..m -> TipKinds] :
          tip_tx' = TipTx([p \in 1..n |-> TipIx(0, p, f[p])], [p \in 1..m |-> TipIx(1, p, h[p])])
    /\ tpc' = "called"
    /\ UNCHANGED <<attacker_tx, xvars, svars, dvars>>

(* tx_types.py lines 166-182, on the swap extracted from the transaction and
   the vaults of P1 *)
TipReturn ==
    /\ tpc = "called"
    /\ attacker_tx' =
          AttackerTx_from_potential_swap(<<tip_tx>>,
              [tx |-> 1, potential_swap |-> extract_potential_swaps(tip_tx).swaps[1]],
              <<"P1", "y">>, <<"P1", "x">>, jito_tip_accounts)
    /\ tpc' = "returned"
    /\ UNCHANGED <<tip_tx, xvars, svars, dvars>>

TipNext == TipCall \/ TipReturn

SpecTip == TipInit /\ [][TipNext]_vars

----------------------------------------------------------------------------
(* Properties of the block scan *)

X(k) == At(tx_list, k)

Sandwiches == {potential_sandwiches[n] : n \in DOMAIN potential_sandwiches}

SignatureOf(e) == get_signature(block[e.tx])
SignerOf(e) == get_signer(block[e.tx])

(* the signatures of a sandwich, in every role *)
SandwichSignatures(s) ==
    {SignatureOf(s.entry_tx), SignatureOf(s.exit_tx)}
    \cup {SignatureOf(s.target_txs[n]) : n \in DOMAIN s.target_txs}

(* the candidate vault sets of a swap as the specification defines them: the
   sources and the destinations of its first two transfers *)
CandidateSrc(swap) == {swap.transfer_instructions[n].source : n \in 1..2}
CandidateDst(swap) == {swap.transfer_instructions[n].destination : n \in 1..2}

(* C1: within one block scan no transaction signature appears in more than
   one emitted sandwich, in any role. *)
C1_SignatureInOneSandwich ==
    \A a, b \in DOMAIN potential_sandwiches :
        a # b => SandwichSignatures(potential_sandwiches[a])
                     \cap SandwichSignatures(potential_sandwiches[b]) = {}

(* C2: no transaction is the entry or the exit of two different sandwiches
   of the same block; in particular the exit of one sandwich is never the
   entry of a later one. *)
C2_AttackerTxUsedOnce ==
    \A a, b \in DOMAIN potential_sandwiches :
        a # b => {potential_sandwiches[a].entry_tx.tx, potential_sandwiches[a].exit_tx.tx}
                     \cap {potential_sandwiches[b].entry_tx.tx,
                           potential_sandwiches[b].exit_tx.tx} = {}

(* C3: every emitted sandwich satisfies the matching predicate: the entry's
   transaction has exactly one swap, entry and exit have the same signer and
   the same DEX program id, and their directions are opposite on the vault
   sets of the first two transfers. *)
C3_EmittedSatisfiesMatch ==
    \A s \in Sandwiches :
        /\ s.entry_tx.number_of_tx_swaps = 1
        /\ SignerOf(s.entry_tx) = SignerOf(s.exit_tx)
        /\ s.entry_tx.potential_swap.exchange_instruction.programId
               = s.exit_tx.potential_swap.exchange_instruction.programId
        /\ CandidateSrc(s.entry_tx.potential_swap)
               \cap CandidateDst(s.exit_tx.potential_swap) # {}
        /\ CandidateDst(s.entry_tx.potential_swap)
               \cap CandidateSrc(s.exit_tx.potential_swap) # {}

C3_Witness == pc = "returned" /\ Len(potential_sandwiches) >= 1

(* C4: for every emitted sandwich with entry index i and exit index j,
   j >= i + 2, the targets are a non-empty list of elements of X strictly
   between i and j in ascending order, no element of X strictly between i
   and j has the entry's signer, and every target is a transaction other
   than the entry's and the exit's. *)
C4_SandwichShape ==
    \A s \in Sandwiches :
        /\ s.entry_tx = X(s.entry_index)
        /\ s.exit_tx = X(s.exit_index)
        /\ s.exit_index >= s.entry_index + 2
        /\ s.exit_index < Len(tx_list)
        /\ s.target_txs # <<>>
        /\ Len(s.target_indexes) = Len(s.target_txs)
        /\ \A n \in DOMAIN s.target_txs :
              /\ s.target_txs[n] = X(s.target_indexes[n])
              /\ s.entry_index < s.target_indexes[n]
              /\ s.target_indexes[n] < s.exit_index
              /\ s.target_txs[n].tx \notin {s.entry_tx.tx, s.exit_tx.tx}
        /\ \A n, m \in DOMAIN s.target_indexes :
              n < m => s.target_indexes[n] < s.target_indexes[m]
        /\ \A k \in (s.entry_index + 1)..(s.exit_index - 1) :
              SignerOf(X(k)) # SignerOf(s.entry_tx)

C4_Witness ==
    /\ pc = "returned"
    /\ \E s \in Sandwiches : Len(s.target_txs) >= 2 /\ s.exit_index = s.entry_index + 3

(* C7: between the entry i and the exit j of an emitted sandwich, a swap
   X[k] of another signer is a target exactly when it uses the entry's DEX
   program and its first-two-transfer source and destination sets intersect
   entry_src and entry_dst; a swap that fails the test is left out and the
   sandwich is emitted all the same. *)
C7_TargetsExactlyMatching ==
    \A s \in Sandwiches :
        \A k \in (s.entry_index + 1)..(s.exit_index - 1) :
            SignerOf(X(k)) # SignerOf(s.entry_tx) =>
                ((\E n \in DOMAIN s.target_indexes : s.target_indexes[n] = k)
                 <=> /\ X(k).potential_swap.exchange_instruction.programId
                            = s.entry_tx.potential_swap.exchange_instruction.programId
                     /\ CandidateSrc(X(k).potential_swap)
                            \cap CandidateSrc(s.entry_tx.potential_swap) # {}
                     /\ CandidateDst(X(k).potential_swap)
                            \cap CandidateDst(s.entry_tx.potential_swap) # {})

C7_Witness ==
    /\ pc = "returned"
    /\ \E s \in Sandwiches :
          /\ Len(s.target_txs) = 1
          /\ s.exit_index = s.entry_index + 3

(* C8: X holds exactly the swaps of the block's successful transactions, in
   block order and extraction order; a transaction with k swaps contributes k
   consecutive entries each carrying the count k, a failed transaction
   contributes none and so is never the entry, a target or the exit of a
   sandwich. *)
SwapsOf(t) == extract_potential_swaps(block[t]).swaps

EntriesOf(t) == {k \in 0..(Len(tx_list) - 1) : X(k).tx = t}

C8_ListOfSuccessfulSwaps ==
    pc \in {"scan", "returned"} =>
        /\ \A k \in 0..(Len(tx_list) - 1) :
              /\ X(k).tx \in DOMAIN block
              /\ block[X(k).tx].err = "None"
              /\ X(k).number_of_tx_swaps = Len(SwapsOf(X(k).tx))
        /\ \A k, m \in 0..(Len(tx_list) - 1) : k < m => X(k).tx <= X(m).tx
        /\ \A t \in DOMAIN block :
              IF block[t].err = "None"
              THEN /\ Cardinality(EntriesOf(t)) = Len(SwapsOf(t))
                   /\ \A k \in EntriesOf(t) :
                         X(k).potential_swap
                             = SwapsOf(t)[1 + Cardinality({m \in EntriesOf(t) : m < k})]
              ELSE EntriesOf(t) = {}
        /\ \A s \in Sandwiches :
              \A sig \in SandwichSignatures(s) :
                  \A t \in DOMAIN block :
                      get_signature(block[t]) = sig => block[t].err = "None"

C8_Witness ==
    /\ pc = "scan"
    /\ \E t, u, v \in DOMAIN block :
          /\ block[t].err # "None" /\ Len(SwapsOf(t)) = 1
          /\ block[u].err = "None" /\ Len(SwapsOf(u)) = 2
          /\ block[v].err = "None" /\ Len(SwapsOf(v)) = 1 /\ u < v

----------------------------------------------------------------------------
(* Properties of the extractor *)

ExtractedSwaps == {extracted[n] : n \in DOMAIN extracted}

(* C5: every transfer instruction of an emitted PotentialSwap has a stack
   height strictly greater than the stack height of the swap's
   exchange_instruction. *)
C5_TransfersBelowExchange ==
    \A swap \in ExtractedSwaps :
        \A n \in DOMAIN swap.transfer_instructions :
            swap.transfer_instructions[n].stackHeight
                > swap.exchange_instruction.stackHeight

(* C6: every emitted PotentialSwap has between 2 and 4 transfer
   instructions, an exchange_instruction that is not a transfer, and a
   top_level_ix whose stack height is 0. *)
C6_SwapShape ==
    \A swap \in ExtractedSwaps :
        /\ Len(swap.transfer_instructions) >= 2
        /\ Len(swap.transfer_instructions) <= 4
        /\ \A n \in DOMAIN swap.transfer_instructions :
              swap.transfer_instructions[n].type \in {"transfer", "transferChecked"}
        /\ ~(swap.exchange_instruction.parsed
             /\ swap.exchange_instruction.type \in {"transfer", "transferChecked"})
        /\ swap.top_level_ix.stackHeight = 0

C6_Witness ==
    /\ xpc = "returned"
    /\ Len(extracted) = 2
    /\ extracted[1].exchange_instruction # extracted[2].exchange_instruction
    /\ \E inner \in DOMAIN tx_resp.innerInstructions :
          Len(tx_resp.innerInstructions[inner].instructions) = 5

----------------------------------------------------------------------------
(* Properties of the driver *)

LastOutcome == IF outcomes = <<>> THEN "" ELSE outcomes[Len(outcomes)]

(* the exit and entry rows stored for a sandwich row *)
RowsOf(s, type) == {r \in db.attacker_txs : r.sandwich_id = s.id /\ r.type = type}

(* C9: a sandwich is stored only when the exit's profit_token_amount is
   strictly greater than the entry's, so no stored sandwich has an exit
   amount less than or equal to its entry amount; a sandwich rejected for its
   profit is not stored, and the driver goes on to the next sandwich of the
   block. *)
C9_StoredOnlyIfProfitable ==
    /\ \A s \in db.sandwiches :
          \A e \in RowsOf(s, "entry") : \A x \in RowsOf(s, "exit") :
              x.profit_token_amount > e.profit_token_amount
    /\ LastOutcome = "stored" =>
          /\ sandwich.exit_tx.profit_token_amount > sandwich.entry_tx.profit_token_amount
          /\ \E s \in db.sandwiches : s.id = sandwich.entry_tx.signature
    /\ LastOutcome = "negative profit" =>
          /\ sandwich.exit_tx.profit_token_amount <= sandwich.entry_tx.profit_token_amount
          /\ \A s \in db.sandwiches : s.id # sandwich.entry_tx.signature
          /\ dpc = "block"
          /\ sandwich_index = Len(outcomes)

C9_Witness ==
    /\ dpc = "block"
    /\ outcomes = <<"negative profit", "stored">>
    /\ sandwich_index = 2

(* the pool row the resolver looked up for the n-th potential sandwich of
   the block, and the transfers of that sandwich's entry *)
PoolOf(n) ==
    pools_map[At(potential_sandwiches, n).entry_tx.potential_swap.exchange_instruction.accounts[2]]

EntryTransfers(n) == At(potential_sandwiches, n).entry_tx.potential_swap.transfer_instructions

Touches(t, pool) ==
    \/ t.source \in {pool.token_a_vault, pool.token_b_vault}
    \/ t.destination \in {pool.token_a_vault, pool.token_b_vault}

FirstTouching(T, pool) ==
    CHOOSE n \in DOMAIN T : Touches(T[n], pool) /\ \A m \in 1..(n - 1) : ~Touches(T[m], pool)

(* C10: the direction is fixed by the first transfer of the entry, in list
   order, that touches a vault of the pool: destination = token_a_vault or
   source = token_b_vault gives profit token_a and targeted token_b with
   their vaults, otherwise the swapped assignment; a sandwich is discarded as
   unmatchable only when no transfer touches a vault; every sandwich built
   has its profit token among the pool's two tokens and the other one as its
   targeted token. *)
C10_DirectionFromFirstVaultTransfer ==
    /\ resolved # NoSandwich =>
          LET pool == PoolOf(resolved.sandwich_index)
              T == EntryTransfers(resolved.sandwich_index)
              d == resolved.direction
          IN /\ \E n \in DOMAIN T : Touches(T[n], pool)
             /\ LET t == T[FirstTouching(T, pool)] IN
                IF t.destination = pool.token_a_vault \/ t.source = pool.token_b_vault
                THEN /\ d.profit_token = pool.token_a
                     /\ d.targeted_token = pool.token_b
                     /\ d.profit_token_vault = pool.token_a_vault
                     /\ d.targeted_token_vault = pool.token_b_vault
                ELSE /\ d.profit_token = pool.token_b
                     /\ d.targeted_token = pool.token_a
                     /\ d.profit_token_vault = pool.token_b_vault
                     /\ d.targeted_token_vault = pool.token_a_vault
    /\ sandwich # NoSandwich =>
          /\ resolved # NoSandwich
          /\ sandwich.profit_token = resolved.direction.profit_token
          /\ sandwich.targeted_token = resolved.direction.targeted_token
          /\ sandwich.profit_token \in {pools_map[sandwich.pool].token_a,
                                        pools_map[sandwich.pool].token_b}
          /\ sandwich.targeted_token \in {pools_map[sandwich.pool].token_a,
                                          pools_map[sandwich.pool].token_b}
          /\ sandwich.targeted_token # sandwich.profit_token
    /\ \A n \in DOMAIN outcomes :
          outcomes[n] = "unmatchable" =>
              \A m \in DOMAIN EntryTransfers(n - 1) :
                  ~Touches(EntryTransfers(n - 1)[m], PoolOf(n - 1))

C10_Witness ==
    /\ LastOutcome = "stored"
    /\ sandwich.profit_token = pools_map[sandwich.pool].token_b
    /\ sandwich.targeted_token = pools_map[sandwich.pool].token_a

----------------------------------------------------------------------------
(* Properties of the amounts and of the driver's failures *)

(* the potential sandwich the resolver handled last *)
Handled == At(potential_sandwiches, resolved.sandwich_index)

TouchesVault(ix, vault) == from_ix(ix).source = vault \/ from_ix(ix).destination = vault

(* of the first two transfers of the swap, one touches the profit vault and
   gives record's profit_token_amount, and the other gives its
   targeted_token_amount *)
AmountsFromVaultTransfer(swap, record) ==
    \E n \in 1..2 :
        /\ TouchesVault(swap.transfer_instructions[n], resolved.direction.profit_token_vault)
        /\ record.profit_token_amount = from_ix(swap.transfer_instructions[n]).amount
        /\ record.targeted_token_amount = from_ix(swap.transfer_instructions[3 - n]).amount

(* C11: for the entry, the exit and each victim of a resolved sandwich,
   profit_token_amount is the amount of the one of the swap's first two
   transfers that touches the profit vault as source or destination, and
   targeted_token_amount is the amount of the other of the two. *)
C11_AmountsFromVaultTransfers ==
    sandwich # NoSandwich =>
        /\ AmountsFromVaultTransfer(Handled.entry_tx.potential_swap, sandwich.entry_tx)
        /\ AmountsFromVaultTransfer(Handled.exit_tx.potential_swap, sandwich.exit_tx)
        /\ \A n \in DOMAIN sandwich.target_txs :
              AmountsFromVaultTransfer(Handled.target_txs[n].potential_swap,
                                       sandwich.target_txs[n])

(* C12: per-sandwich failures are recovered locally: no condition of a
   matched sandwich's data, such as a victim, entry or exit whose first
   transfer touches neither the profit vault nor the targeted vault, raises
   out of the driver; the sandwich is skipped and the driver goes on.  Only
   store errors leave the loop over the block's sandwiches: when that loop
   was left by an exception, a sandwich had been built and the store
   rejected it. *)
C12_SandwichFailuresRecovered ==
    (dpc = "raised" /\ pc = "returned") =>
        /\ sandwich # NoSandwich
        /\ StoreRejected(db, sandwich)

----------------------------------------------------------------------------
(* Properties of the block scan's failures *)

(* a transfer-kind instruction of the transaction has none of the three
   shapes the classifier accepts *)
HasUnclassifiableTransfer(tx) ==
    \/ \E n \in DOMAIN tx.instructions :
          is_transfer(tx.instructions[n]) /\ from_ix(tx.instructions[n]).raised
    \/ \E g \in DOMAIN tx.innerInstructions :
          \E n \in DOMAIN tx.innerInstructions[g].instructions :
              /\ is_transfer(tx.innerInstructions[g].instructions[n])
              /\ from_ix(tx.innerInstructions[g].instructions[n]).raised

(* C13: a transaction containing a transfer-kind instruction that cannot be
   classified contributes no swaps to the matcher's list X, and the
   classification failure never aborts the block scan: the rest of the block
   is scanned and its sandwiches emitted. *)
C13_UnclassifiableContributesNothing ==
    /\ \A k \in DOMAIN tx_list : ~HasUnclassifiableTransfer(block[tx_list[k].tx])
    /\ (\E t \in DOMAIN block : HasUnclassifiableTransfer(block[t])) => pc # "raised"

----------------------------------------------------------------------------
(* Properties of the resolver's skips *)

SkipOutcomes == {"unknown dex", "invalid pool index", "unknown pool", "unmatchable"}

(* which of the four conditions holds of a potential sandwich, the first in
   the order the resolver tests them, or "none" *)
SkipCondition(ps) ==
    LET ix == ps.entry_tx.potential_swap.exchange_instruction
        T == ps.entry_tx.potential_swap.transfer_instructions
    IN IF ix.programId \notin DOMAIN EXCHANGES_INFO THEN "unknown dex"
       ELSE IF Len(ix.accounts) < EXCHANGES_INFO[ix.programId].pool_index + 1
       THEN "invalid pool index"
       ELSE IF ix.accounts[EXCHANGES_INFO[ix.programId].pool_index + 1] \notin DOMAIN pools_map
       THEN "unknown pool"
       ELSE IF \A m \in DOMAIN T :
                  ~Touches(T[m], pools_map[ix.accounts[EXCHANGES_INFO[ix.programId].pool_index + 1]])
       THEN "unmatchable"
       ELSE "none"

NothingStoredFor(ps) ==
    LET id == get_signature(block[ps.entry_tx.tx]) IN
    /\ \A r \in db.sandwiches : r.id # id
    /\ \A r \in db.attacker_txs \cup db.target_txs : r.sandwich_id # id

(* C14: the resolver skips a matched sandwich, stores nothing for it and
   goes on to the next sandwich of the block when the DEX program id is not
   in the exchange registry, or the exchange instruction has too few accounts
   for the registry's pool index, or the pool address is not in the pool
   registry, or no entry transfer touches either vault of the pool; and it
   takes one of these four branches only when its condition holds. *)
C14_SkipsAndGoesOn ==
    \A n \in DOMAIN outcomes :
        LET ps == At(potential_sandwiches, n - 1) IN
        /\ SkipCondition(ps) # "none" =>
              /\ outcomes[n] = SkipCondition(ps)
              /\ NothingStoredFor(ps)
              /\ n = Len(outcomes) =>
                    /\ dpc = "block"
                    /\ sandwich_index = n
                    /\ sandwich = NoSandwich
        /\ outcomes[n] \in SkipOutcomes => SkipCondition(ps) = outcomes[n]

C14_Witness ==
    /\ Len(outcomes) = 2
    /\ outcomes[1] \in SkipOutcomes
    /\ outcomes[2] = "stored"

----------------------------------------------------------------------------
(* Properties of the store *)

(* the sandwich built last passed the profit test and the sink rejected its
   rows *)
SinkRejected ==
    /\ sandwich # NoSandwich
    /\ IsProfitable(sandwich)
    /\ LastOutcome # "stored"

(* C15: a duplicate-id rejection by the sink (a sandwich or attacker
   transaction row whose primary key already exists) is non-fatal: the driver
   continues with the remaining sandwiches and blocks, and nothing already
   stored is changed. *)
C15_DuplicateIsNonFatal ==
    SinkRejected =>
        /\ dpc = "block"
        /\ sandwich_index = Len(outcomes)

----------------------------------------------------------------------------
(* Properties of an interrupted and restarted driver *)

(* C16: after the driver is interrupted in the middle of a block, some of
   the block's sandwiches stored and others not yet, the restarted driver
   scans from the highest block number stored, so that no qualifying sandwich
   of the interrupted block is lost: when the restarted run has finished its
   range, every sandwich the interrupted run had left to store is in the
   store. *)
C16_NoQualifyingSandwichLost ==
    (dpc = "done" /\ interrupted # <<>>) =>
        \A id \in interrupted.pending : \E r \in db.sandwiches : r.id = id

----------------------------------------------------------------------------
(* C17 *)

(* the rows of the three tables that belong to the sandwich of a given id *)
StoredRowsOf(id) ==
    [entry |-> {r \in db.attacker_txs : r.sandwich_id = id /\ r.type = "entry"},
     exit |-> {r \in db.attacker_txs : r.sandwich_id = id /\ r.type = "exit"},
     targets |-> {r \in db.target_txs : r.sandwich_id = id}]

(* every sandwich row has its entry row, its exit row and target rows, and no
   attacker or target row is without its sandwich row *)
NoPartialSandwich ==
    /\ \A r \in db.sandwiches :
          /\ Cardinality(StoredRowsOf(r.id).entry) = 1
          /\ Cardinality(StoredRowsOf(r.id).exit) = 1
          /\ StoredRowsOf(r.id).targets # {}
    /\ \A r \in db.attacker_txs \cup db.target_txs :
          \E q \in db.sandwiches : q.id = r.sandwich_id

(* the sandwich main has just stored is in the store with all its rows *)
LastStoredIsWhole ==
    (LastOutcome = "stored" /\ sandwich # NoSandwich) =>
        LET id == sandwich.entry_tx.signature IN
        /\ SandwichRow(sandwich) \in db.sandwiches
        /\ StoredRowsOf(id).entry = {AttackerRow(sandwich.entry_tx, "entry", id)}
        /\ StoredRowsOf(id).exit = {AttackerRow(sandwich.exit_tx, "exit", id)}
        /\ StoredRowsOf(id).targets =
              {TargetRow(sandwich.target_txs[n], id) : n \in DOMAIN sandwich.target_txs}

(* C17: a sandwich is written atomically and only after its whole pipeline
   succeeded: in every state, and so wherever the driver is abandoned, each
   sandwich of the store has its sandwich row, its entry and exit attacker
   rows and its target rows, no row is there without its sandwich, and the
   sandwich main has just stored is there with all the rows built for it *)
C17_SandwichWrittenAtomically ==
    /\ NoPartialSandwich
    /\ LastStoredIsWhole

(* main has stored a sandwich with a target row and waits in the middle of
   the block, where it can be abandoned, another sandwich still to come *)
C17_Witness ==
    /\ dpc = "block"
    /\ pc = "returned"
    /\ LastOutcome = "stored"
    /\ sandwich_index < Len(potential_sandwiches)
    /\ StoredRowsOf(sandwich.entry_tx.signature).targets # {}

----------------------------------------------------------------------------
(* C18 *)

IsTipTransfer(ix) == ix.parsed /\ ix.type = "transfer" /\ ix.destination \in jito_tip_accounts

TopTips == {k \in DOMAIN tip_tx.instructions : IsTipTransfer(tip_tx.instructions[k])}

InnerTips ==
    UNION {{<<g, k>> : k \in {n \in DOMAIN tip_tx.innerInstructions[g].instructions :
                                 IsTipTransfer(tip_tx.innerInstructions[g].instructions[n])}} :
              g \in DOMAIN tip_tx.innerInstructions}

Earlier(a, b) == a[1] < b[1] \/ (a[1] = b[1] /\ a[2] < b[2])

(* C18: get_jito_tip returns the lamports of the first parsed transfer to a
   tip recipient among the top-level instructions in order, then among the
   inner instructions in order, group after group; transfers to other
   accounts count for nothing wherever they are; it returns 0 when there is
   no such transfer; priority_fee is 0 *)
C18_FirstTipTransfer ==
    tpc = "returned" =>
        /\ attacker_tx.priority_fee = 0
        /\ TopTips # {} =>
              \E k \in TopTips :
                  /\ \A m \in TopTips : k <= m
                  /\ attacker_tx.jito_tip = tip_tx.instructions[k].amount
        /\ (TopTips = {} /\ InnerTips # {}) =>
              \E gk \in InnerTips :
                  /\ \A o \in InnerTips : ~Earlier(o, gk)
                  /\ attacker_tx.jito_tip =
                        tip_tx.innerInstructions[gk[1]].instructions[gk[2]].amount
        /\ (TopTips = {} /\ InnerTips = {}) => attacker_tx.jito_tip = 0

(* a tip found in the last inner group, after a top-level transfer to
   another account and an inner transfer to another account *)
C18_Witness ==
    /\ tpc = "returned"
    /\ attacker_tx.jito_tip > 0
    /\ TopTips = {}
    /\ \E k \in DOMAIN tip_tx.instructions :
          /\ tip_tx.instructions[k].parsed
          /\ tip_tx.instructions[k].destination = <<"V", "sol">>
    /\ \E gk \in InnerTips :
          /\ gk[1] = Len(tip_tx.innerInstructions)
          /\ \E g \in 1..(gk[1] - 1) :
                \E k \in DOMAIN tip_tx.innerInstructions[g].instructions :
                    tip_tx.innerInstructions[g].instructions[k].destination = <<"V", "sol">>

----------------------------------------------------------------------------
(* C19 *)

StoredOutcomes == {n \in DOMAIN outcomes : outcomes[n] = "stored"}

(* C19: within a block the matcher emits the sandwiches in ascending order
   of their entry index in X, and main resolves and stores them in that
   order: the sandwiches it has handled are the first ones of the list, the
   one it resolved last is the last of these, and the sandwiches of the
   block in the store are those of them it stored *)
C19_AscendingEntryOrder ==
    /\ \A a, b \in DOMAIN potential_sandwiches :
          a < b => potential_sandwiches[a].entry_index < potential_sandwiches[b].entry_index
    /\ (dpc \in {"block", "raised"} /\ pc = "returned") =>
          /\ Len(outcomes) <= Len(potential_sandwiches)
          /\ resolved # NoSandwich => resolved.sandwich_index = Len(outcomes) - 1
          /\ StoredOfBlock =
                {SignatureOf(potential_sandwiches[n].entry_tx) : n \in StoredOutcomes}

(* two sandwiches of one block, stored one after the other *)
C19_Witness ==
    /\ dpc = "block"
    /\ Len(potential_sandwiches) = 2
    /\ potential_sandwiches[1].entry_index < potential_sandwiches[2].entry_index
    /\ StoredOutcomes = {1, 2}
    /\ Cardinality(StoredOfBlock) = 2

----------------------------------------------------------------------------
(* C20 *)

ProgramOf(e) == e.potential_swap.exchange_instruction.programId

(* X[k] is neither the entry nor the exit of a sandwich emitted before the
   a-th one *)
Unused(k, a) ==
    \A b \in 1..(a - 1) :
        SignatureOf(X(k)) \notin {SignatureOf(potential_sandwiches[b].entry_tx),
                                  SignatureOf(potential_sandwiches[b].exit_tx)}

IsVictimOf(e, v) ==
    /\ ProgramOf(v) = ProgramOf(e)
    /\ CandidateSrc(v.potential_swap) \cap CandidateSrc(e.potential_swap) # {}
    /\ CandidateDst(v.potential_swap) \cap CandidateDst(e.potential_swap) # {}

(* X[j_] can close the a-th sandwich, whose entry is X[i_] *)
QualifiesAsExit(i_, j_, a) ==
    /\ Unused(j_, a)
    /\ SignerOf(X(j_)) = SignerOf(X(i_))
    /\ ProgramOf(X(j_)) = ProgramOf(X(i_))
    /\ CandidateSrc(X(i_).potential_swap) \cap CandidateDst(X(j_).potential_swap) # {}
    /\ CandidateDst(X(i_).potential_swap) \cap CandidateSrc(X(j_).potential_swap) # {}
    /\ \A k \in (i_ + 1)..(j_ - 1) : SignerOf(X(k)) # SignerOf(X(i_))
    /\ \E k \in (i_ + 1)..(j_ - 1) : IsVictimOf(X(i_), X(k))

(* C20: for each entry index i the matcher emits at most one sandwich, and
   its exit is the smallest index j >= i + 2 that is unused, has the entry's
   signer and DEX, passes the opposite-direction test and yields a valid
   interval with at least one victim; no later j is matched for the same i *)
C20_OneSandwichPerEntrySmallestExit ==
    \A a \in DOMAIN potential_sandwiches :
        LET s == potential_sandwiches[a] IN
        /\ \A b \in DOMAIN potential_sandwiches :
              b # a => potential_sandwiches[b].entry_index # s.entry_index
        /\ s.exit_index >= s.entry_index + 2
        /\ QualifiesAsExit(s.entry_index, s.exit_index, a)
        /\ \A j_ \in (s.entry_index + 2)..(s.exit_index - 1) :
              ~QualifiesAsExit(s.entry_index, j_, a)

(* a sandwich was emitted for i, and a later swap of X has the entry's
   signer and DEX and the opposite direction, with a victim in between: the
   scan is over and it was not matched for i *)
C20_Witness ==
    /\ pc = "returned"
    /\ \E a \in DOMAIN potential_sandwiches :
          LET s == potential_sandwiches[a] IN
          \E j_ \in (s.exit_index + 1)..(Len(tx_list) - 1) :
              /\ SignerOf(X(j_)) = SignerOf(s.entry_tx)
              /\ ProgramOf(X(j_)) = ProgramOf(s.entry_tx)
              /\ CandidateSrc(s.entry_tx.potential_swap)
                     \cap CandidateDst(X(j_).potential_swap) # {}
              /\ CandidateDst(s.entry_tx.potential_swap)
                     \cap CandidateSrc(X(j_).potential_swap) # {}

----------------------------------------------------------------------------
(* C21 *)

(* the list L of the transaction's one group, positions 1..Len(L) *)
GroupList == ProgramIxs(tx_resp, tx_resp.innerInstructions[1])

IsTransferAt(p) ==
    /\ GroupList[p].parsed
    /\ GroupList[p].type \in {"transfer", "transferChecked"}

NonTransfers == {p \in DOMAIN GroupList : ~IsTransferAt(p)}

(* the maximal runs of consecutive transfers after the first non-transfer,
   as pairs of their first and last positions *)
TransferRuns ==
    {r \in (DOMAIN GroupList) \X (DOMAIN GroupList) :
        /\ r[1] <= r[2]
        /\ \A p \in r[1]..r[2] : IsTransferAt(p)
        /\ r[1] - 1 \in NonTransfers
        /\ r[2] = Len(GroupList) \/ r[2] + 1 \in NonTransfers}

RunLength(r) == r[2] - r[1] + 1

SwapRuns == {r \in TransferRuns : RunLength(r) >= 2 /\ RunLength(r) <= 4}

(* the non-transfers before position p that are less deep than it *)
CallersOf(p) ==
    {q \in NonTransfers : q < p /\ GroupList[q].stackHeight < GroupList[p].stackHeight}

(* the run r gave the swap: its transfers, and the last caller of its first *)
IsSwapOfRun(swap, r) ==
    /\ swap.transfer_instructions = SubSeq(GroupList, r[1], r[2])
    /\ \E q \in CallersOf(r[1]) :
          /\ \A o \in CallersOf(r[1]) : o <= q
          /\ swap.exchange_instruction = GroupList[q]

(* no instruction is deeper than a transfer right before it: a transfer
   calls nothing *)
TransfersCallNothing ==
    \A p \in 1..(Len(GroupList) - 1) :
        IsTransferAt(p) => GroupList[p + 1].stackHeight <= GroupList[p].stackHeight

(* C21: each maximal run of consecutive transfers after the first
   non-transfer of L yields exactly one PotentialSwap when its length is 2 to
   4 and none otherwise, with the run's transfers, and the swap's
   exchange_instruction is the nearest enclosing caller of the run's first
   transfer, the last non-transfer before the run that is less deep than it;
   for the lists in which a transfer calls nothing *)
C21_OneSwapPerRun ==
    (xpc = "returned" /\ TransfersCallNothing) =>
        /\ Len(extracted) = Cardinality(SwapRuns)
        /\ \A r \in SwapRuns :
              Cardinality({n \in DOMAIN extracted : IsSwapOfRun(extracted[n], r)}) = 1
        /\ \A n \in DOMAIN extracted : \E r \in SwapRuns : IsSwapOfRun(extracted[n], r)

(* ix_A -> {t1, t2, ix_C -> {t4, t5}}: two swaps, of ix_A and of ix_C *)
C21_Witness ==
    /\ xpc = "returned"
    /\ TransfersCallNothing
    /\ Len(GroupList) = 6
    /\ NonTransfers = {1, 4}
    /\ GroupList[5].stackHeight > GroupList[4].stackHeight
    /\ Len(extracted) = 2
    /\ extracted[1].exchange_instruction = GroupList[1]
    /\ extracted[2].exchange_instruction = GroupList[4]

----------------------------------------------------------------------------
(* C22 *)

(* the transfers of L before its first non-transfer *)
LeadingTransfers == {p \in DOMAIN GroupList : \A q \in 1..p : IsTransferAt(q)}

(* C22: when every instruction of L is a transfer the pass emits no
   PotentialSwap and ends; a transfer before the first non-transfer of L is
   in no emitted swap; the exchange_instruction of an emitted swap is a
   non-transfer of L, never the element read backwards at the end of the
   list *)
C22_LeadingTransfersLeftOut ==
    /\ (xpc \in {"returned", "raised"} /\ NonTransfers = {}) =>
          xpc = "returned" /\ extracted = <<>>
    /\ xpc = "returned" =>
          \A swap \in ExtractedSwaps :
              /\ \A n \in DOMAIN swap.transfer_instructions :
                    \A p \in LeadingTransfers :
                        swap.transfer_instructions[n] # GroupList[p]
              /\ \E q \in NonTransfers : swap.exchange_instruction = GroupList[q]

(* a list of transfers only, long enough to hold a run of swap length *)
C22_Witness ==
    /\ xpc = "returned"
    /\ NonTransfers = {}
    /\ Len(GroupList) >= 3
    /\ extracted = <<>>

----------------------------------------------------------------------------
(* C23 *)

(* the top-level instruction is not a transfer and the inner instructions
   have a stack height of 1 or more *)
CallAtTop ==
    /\ 1 \in NonTransfers
    /\ \A p \in 2..Len(GroupList) : GroupList[p].stackHeight >= 1

(* C23: for a list whose first element is not a transfer and whose inner
   instructions have stack heights of 1 or more, the stack of non-transfers
   is never read or popped empty: the walk raises no IndexError and ends
   with the right cursor at the end of L *)
C23_StackNeverEmpty ==
    (xpc \in {"called", "returned", "raised"} /\ CallAtTop) =>
        /\ xpc # "raised"
        /\ ~ExtractGroup(GroupList, <<>>).raised
        /\ ExtractGroup(GroupList, <<>>).right_ptr = Len(GroupList)

(* a walk that popped: a call at height 1 after instructions at height 2,
   in a list of full length *)
C23_Witness ==
    /\ xpc = "returned"
    /\ CallAtTop
    /\ Len(GroupList) = MaxInner + 1
    /\ \E p \in 2..(Len(GroupList) - 1) :
          /\ GroupList[p].stackHeight = 2
          /\ GroupList[p + 1].stackHeight = 1
          /\ p + 1 \in NonTransfers
          /\ p \in NonTransfers

============================================================================
